---- MODULE Spec2Model ----
(***************************************************************************)
(* Model of src/result_thread.py: the ResultThread worker (run and         *)
(* _record_audio), the audio callbacks of the input stream, and the        *)
(* control thread calling start(), set_ready(), stop_recording(), stop().  *)
(*                                                                         *)
(* Units: samples are counted one by one; sample_rate is in samples per    *)
(* second, all durations are in milliseconds.  A sample's value is the     *)
(* arrival number of the callback that delivered it.                       *)
(***************************************************************************)
EXTENDS Integers, Sequences, FiniteSets, TLC

\* ---------------------------------------------------------------- bounds
MaxCallbacks == 3       \* audio callbacks delivered per session
MaxSessions  == 1       \* executions of run() on one ResultThread
MaxStops     == 1       \* calls of stop()

\* ------------------------------------------------- configuration inputs
RecordingModes == {"press_to_toggle", "hold_to_record",
                   "continuous", "voice_activity_detection"}
SampleRateValues      == {100}
MaxRecordingMsValues  == {10, 40}
MinDurationValues     == {30}
SilenceDurationValues == {60}
FrameSizes            == {1, 3}     \* block sizes the direct stream delivers
ElapsedValues         == {0, 30, 31} \* seconds since recording_start_time
TranscribeOutcomes    == {"text", "raise"}
VadOutcomes           == {"speech", "silence", "raise"}

\* ----------------------------------------------------- program constants
frame_duration_ms == 30
SafetyTimeout     == 30

VARIABLES
    recording_mode, sample_rate, record_ms, min_duration_ms, silence_duration_ms,
    is_recording, ready_to_record, is_running,
    pc, cpc,
    statuses, results, stop_idles, stop_in_session,
    stream_open,
    frames_recorded, buffer_size, recording_data,
    audio_buffer, data_ready, frame,
    speech_detected, silent_frame_count, frames_processed, elapsed,
    audio_data,
    callbacks, sessions, stops,
    transcribe_calls, path, stop_at, stoprec_at, stream_failed, discard_reason,
    vad_last, armed_delivery, exit_reason

config == <<recording_mode, sample_rate, record_ms, min_duration_ms, silence_duration_ms>>
flags  == <<is_recording, ready_to_record, is_running>>
sigs   == <<statuses, results, stop_idles, stop_in_session>>
direct == <<frames_recorded, buffer_size>>
vadbuf == <<audio_buffer, data_ready, frame>>
vadst  == <<speech_detected, silent_frame_count, frames_processed>>
hist   == <<transcribe_calls, path, stop_at, stoprec_at, stream_failed, discard_reason>>
\* what an observer of the session has seen: the classification in the loop
\* iteration just run, whether a callback came while ready_to_record was
\* false, and why the capture loop was left
obs    == <<vad_last, armed_delivery, exit_reason>>
vars   == <<config, flags, pc, cpc, sigs, stream_open, direct, recording_data,
            vadbuf, vadst, elapsed, audio_data, callbacks, sessions, stops, hist, obs>>

\* ---------------------------------------------------------------- helpers
None == [none |-> TRUE, data |-> <<>>]
Some(d) == [none |-> FALSE, data |-> d]

Zeros(n) == [i \in 1..n |-> 0]
Fill(n, v) == [i \in 1..n |-> v]
Take(s, n) == SubSeq(s, 1, n)

DirectModes == {"press_to_toggle", "hold_to_record"}

\* line 163: int(self.sample_rate * record_seconds)
InitialBufferSize == (sample_rate * record_ms) \div 1000
\* line 231: int(self.sample_rate * (frame_duration_ms / 1000.0))
frame_size == (sample_rate * frame_duration_ms) \div 1000
\* line 233: int(silence_duration_ms / frame_duration_ms)
silence_frames == silence_duration_ms \div frame_duration_ms

\* faulty variant: the comparison of line 215/328 taken as <=
TooShort_LessEqual(len) == len * 1000 <= min_duration_ms * sample_rate

\* lines 207/215 and 318/328: (len / sample_rate) * 1000 < min_duration_ms
TooShort(len) == len * 1000 < min_duration_ms * sample_rate

\* deque(maxlen=m).extend(data): the oldest elements fall off the left
DequeExtend(buf, data, m) ==
    LET all == buf \o data
    IN  IF Len(all) <= m THEN all ELSE SubSeq(all, Len(all) - m + 1, Len(all))

SessionActive == pc \notin {"not_started", "finished"}

\* The phase of the session seen by a control call
Phase == IF ~SessionActive THEN "none"
         ELSE IF stream_open /\ ready_to_record THEN "capturing"
         ELSE IF stream_open THEN "armed"
         ELSE "other"

\* statusSignal.emit(s) from the worker
EmitStatus(s) == statuses' = Append(statuses, s)

Init ==
    /\ recording_mode \in RecordingModes
    /\ sample_rate \in SampleRateValues
    /\ record_ms = 0     \* read at line 159, once the direct branch is taken
    /\ min_duration_ms \in MinDurationValues
    /\ silence_duration_ms \in SilenceDurationValues
    /\ is_recording = FALSE
    /\ ready_to_record = FALSE
    /\ is_running = TRUE
    /\ pc = "not_started"
    /\ cpc = "ready"
    /\ statuses = <<>>
    /\ results = <<>>
    /\ stop_idles = 0
    /\ stop_in_session = FALSE
    /\ stream_open = FALSE
    /\ frames_recorded = 0
    /\ buffer_size = 0
    /\ recording_data = <<>>
    /\ audio_buffer = <<>>
    /\ data_ready = FALSE
    /\ frame = <<>>
    /\ speech_detected = FALSE
    /\ silent_frame_count = 0
    /\ frames_processed = 0
    /\ elapsed = 0
    /\ audio_data = None
    /\ callbacks = 0
    /\ sessions = 0
    /\ stops = 0
    /\ transcribe_calls = 0
    /\ path = "none"
    /\ stop_at = "none"
    /\ stoprec_at = "none"
    /\ stream_failed = FALSE
    /\ discard_reason = "none"
    /\ vad_last = "none"
    /\ armed_delivery = FALSE
    /\ exit_reason = "none"

\* ------------------------------------------------------- control thread
\* QThread.start(): a new execution of run()
Start ==
    /\ cpc = "ready"
    /\ pc \in {"not_started", "finished"}
    /\ sessions < MaxSessions
    /\ sessions' = sessions + 1
    /\ pc' = "run_70"
    /\ statuses' = <<>>
    /\ results' = <<>>
    /\ transcribe_calls' = 0
    /\ path' = "none"
    /\ stop_at' = "none"
    /\ stoprec_at' = "none"
    /\ stream_failed' = FALSE
    /\ discard_reason' = "none"
    /\ callbacks' = 0
    /\ frames_recorded' = 0
    /\ buffer_size' = 0
    /\ recording_data' = <<>>
    /\ audio_buffer' = <<>>
    /\ data_ready' = FALSE
    /\ frame' = <<>>
    /\ speech_detected' = FALSE
    /\ silent_frame_count' = 0
    /\ frames_processed' = 0
    /\ elapsed' = 0
    /\ audio_data' = None
    /\ vad_last' = "none"
    /\ armed_delivery' = FALSE
    /\ exit_reason' = "none"
    /\ UNCHANGED <<config, flags, cpc, stop_idles, stop_in_session, stream_open, stops>>

\* faulty variant: ready_to_record is left as it is
ClearRecordingFlags_KeepsReady ==
    /\ is_recording' = FALSE
    /\ UNCHANGED <<ready_to_record, is_running>>

\* lines 52-57 (the flag writes, under the mutex)
ClearRecordingFlags ==
    /\ is_recording' = FALSE
    /\ ready_to_record' = FALSE
    /\ UNCHANGED is_running

stop_recording ==
    /\ cpc = "ready"
    /\ ClearRecordingFlags
    /\ stoprec_at' = IF stoprec_at = "none" THEN Phase ELSE stoprec_at
    /\ UNCHANGED <<config, obs, pc, cpc, sigs, stream_open, direct, recording_data,
                   vadbuf, vadst, elapsed, audio_data, callbacks, sessions, stops,
                   transcribe_calls, path, stop_at, stream_failed, discard_reason>>

\* lines 367-371
set_ready ==
    /\ cpc = "ready"
    /\ ready_to_record' = TRUE
    /\ UNCHANGED <<is_recording, is_running>>
    /\ UNCHANGED <<config, obs, pc, cpc, sigs, stream_open, direct, recording_data,
                   vadbuf, vadst, elapsed, audio_data, callbacks, sessions, stops, hist>>

\* lines 61-63
stop_SetFlag ==
    /\ cpc = "ready"
    /\ stops < MaxStops
    /\ stops' = stops + 1
    /\ is_running' = FALSE
    /\ UNCHANGED <<is_recording, ready_to_record>>
    /\ cpc' = "stop_64"
    /\ stop_at' = IF stop_at = "none" THEN Phase ELSE stop_at
    /\ stop_in_session' = SessionActive
    /\ UNCHANGED <<config, obs, pc, statuses, results, stop_idles, stream_open, direct, recording_data,
                   vadbuf, vadst, elapsed, audio_data, callbacks, sessions,
                   transcribe_calls, path, stoprec_at, stream_failed, discard_reason>>

\* line 64
StopEmits ==
    /\ stop_idles' = stop_idles + 1
    /\ statuses' = IF stop_in_session THEN Append(statuses, "idle") ELSE statuses

stop_Emit ==
    /\ cpc = "stop_64"
    /\ StopEmits
    /\ cpc' = "stop_65"
    /\ UNCHANGED <<config, obs, flags, pc, results, stop_in_session, stream_open, direct, recording_data,
                   vadbuf, vadst, elapsed, audio_data, callbacks, sessions, stops, hist>>

\* faulty variant: stop() returns without waiting for run()
stop_Wait_NoWait ==
    /\ cpc = "stop_65"
    /\ cpc' = "ready"
    /\ UNCHANGED <<config, obs, flags, pc, sigs, stream_open, direct, recording_data,
                   vadbuf, vadst, elapsed, audio_data, callbacks, sessions, stops, hist>>

\* line 65: QThread.wait() returns once run() has returned
stop_Wait ==
    /\ cpc = "stop_65"
    /\ ~SessionActive
    /\ cpc' = "ready"
    /\ UNCHANGED <<config, obs, flags, pc, sigs, stream_open, direct, recording_data,
                   vadbuf, vadst, elapsed, audio_data, callbacks, sessions, stops, hist>>

\* ------------------------------------------------------------ run()
WorkerFrame == <<config, obs, cpc, stream_open, direct, recording_data, vadbuf, vadst,
                 elapsed, audio_data, callbacks, sessions, stops>>

\* faulty variant: run() goes on although is_running is false
run_CheckRunning_Ignored ==
    /\ pc = "run_70"
    /\ pc' = "run_73"
    /\ UNCHANGED path
    /\ UNCHANGED <<WorkerFrame, flags, sigs, transcribe_calls, stop_at, stoprec_at,
                   stream_failed, discard_reason>>

\* lines 70-71
run_CheckRunning ==
    /\ pc = "run_70"
    /\ IF ~is_running
       THEN pc' = "run_115" /\ path' = "shutdown_start"
       ELSE pc' = "run_73" /\ UNCHANGED path
    /\ UNCHANGED <<WorkerFrame, flags, sigs, transcribe_calls, stop_at, stoprec_at,
                   stream_failed, discard_reason>>

\* lines 73-76
run_SetRecording ==
    /\ pc = "run_73"
    /\ is_recording' = TRUE
    /\ ready_to_record' = FALSE
    /\ UNCHANGED is_running
    /\ pc' = "run_78"
    /\ UNCHANGED <<WorkerFrame, sigs, hist>>

\* line 78
run_EmitRecording ==
    /\ pc = "run_78"
    /\ EmitStatus("recording")
    /\ pc' = "run_84"
    /\ UNCHANGED <<WorkerFrame, flags, results, stop_idles, stop_in_session, hist>>

\* faulty variant: the is_running check of line 86 left out
run_CheckAfterRecord_NoCheck ==
    /\ pc = "run_86"
    /\ pc' = "run_89"
    /\ UNCHANGED <<WorkerFrame, flags, sigs, hist>>

\* lines 86-87
run_CheckAfterRecord ==
    /\ pc = "run_86"
    /\ IF ~is_running
       THEN pc' = "run_115" /\ path' = "shutdown_recorded"
       ELSE pc' = "run_89" /\ UNCHANGED path
    /\ UNCHANGED <<WorkerFrame, flags, sigs, transcribe_calls, stop_at, stoprec_at,
                   stream_failed, discard_reason>>

\* faulty variant: the return of line 91 left out
run_CheckNone_NoReturn ==
    /\ pc = "run_89"
    /\ IF audio_data.none THEN EmitStatus("idle") ELSE UNCHANGED statuses
    /\ pc' = "run_93"
    /\ UNCHANGED <<WorkerFrame, flags, results, stop_idles, stop_in_session, hist>>

\* lines 89-91
run_CheckNone ==
    /\ pc = "run_89"
    /\ IF audio_data.none
       THEN /\ EmitStatus("idle")
            /\ pc' = "run_115"
            /\ path' = "discard"
       ELSE /\ pc' = "run_93"
            /\ UNCHANGED <<statuses, path>>
    /\ UNCHANGED <<WorkerFrame, flags, results, stop_idles, stop_in_session, transcribe_calls,
                   stop_at, stoprec_at, stream_failed, discard_reason>>

\* line 93
run_EmitTranscribing ==
    /\ pc = "run_93"
    /\ EmitStatus("transcribing")
    /\ pc' = "run_98"
    /\ UNCHANGED <<WorkerFrame, flags, results, stop_idles, stop_in_session, hist>>

\* line 98: transcribe(audio_data, self.local_model) returns a text or raises
run_Transcribe ==
    /\ pc = "run_98"
    /\ transcribe_calls' = transcribe_calls + 1
    /\ \E outcome \in TranscribeOutcomes :
         IF outcome = "raise"
         THEN pc' = "run_112" /\ path' = "except"
         ELSE pc' = "run_104" /\ UNCHANGED path
    /\ UNCHANGED <<WorkerFrame, flags, sigs, stop_at, stoprec_at, stream_failed,
                   discard_reason>>

\* lines 104-105
run_CheckAfterTranscribe ==
    /\ pc = "run_104"
    /\ IF ~is_running
       THEN pc' = "run_115" /\ path' = "shutdown_transcribed"
       ELSE pc' = "run_107" /\ UNCHANGED path
    /\ UNCHANGED <<WorkerFrame, flags, sigs, transcribe_calls, stop_at, stoprec_at,
                   stream_failed, discard_reason>>

\* line 107
run_EmitIdle ==
    /\ pc = "run_107"
    /\ EmitStatus("idle")
    /\ pc' = "run_108"
    /\ UNCHANGED <<WorkerFrame, flags, results, stop_idles, stop_in_session, hist>>

\* line 108
run_EmitResult ==
    /\ pc = "run_108"
    /\ results' = Append(results, "text")
    /\ pc' = "run_115"
    /\ path' = "completed"
    /\ UNCHANGED <<WorkerFrame, flags, statuses, stop_idles, stop_in_session, transcribe_calls,
                   stop_at, stoprec_at, stream_failed, discard_reason>>

\* faulty variant: the handler emits no status
run_ExceptStatus_Silent ==
    /\ pc = "run_112"
    /\ pc' = "run_113"
    /\ UNCHANGED <<WorkerFrame, flags, sigs, hist>>

\* line 112
run_ExceptStatus ==
    /\ pc = "run_112"
    /\ EmitStatus("error")
    /\ pc' = "run_113"
    /\ UNCHANGED <<WorkerFrame, flags, results, stop_idles, stop_in_session, hist>>

\* line 113
run_ExceptResult ==
    /\ pc = "run_113"
    /\ results' = Append(results, "")
    /\ pc' = "run_115"
    /\ UNCHANGED <<WorkerFrame, flags, statuses, stop_idles, stop_in_session, hist>>

\* faulty variant: run() returns without calling stop_recording()
run_Finally_NoStop ==
    /\ pc = "run_115"
    /\ pc' = "finished"
    /\ UNCHANGED <<WorkerFrame, flags, sigs, hist>>

\* lines 114-115: finally: self.stop_recording(); run() has then returned
run_Finally ==
    /\ pc = "run_115"
    /\ ClearRecordingFlags
    /\ pc' = "finished"
    /\ UNCHANGED <<WorkerFrame, sigs, hist>>

\* ------------------------------------------- _record_audio, direct mode
\* lines 168-188: the stream's callback, with `frames` samples of value v
GrowBuffer(n) ==
    IF frames_recorded + n > buffer_size THEN buffer_size * 2 ELSE buffer_size

callback_Append(n, v) ==
    LET size  == GrowBuffer(n)
        grown == IF size = buffer_size THEN recording_data
                 ELSE [i \in 1..size |-> IF i <= buffer_size THEN recording_data[i] ELSE 0]
    IN  /\ buffer_size' = size
        /\ IF frames_recorded + n <= size
           THEN /\ recording_data' =
                      [i \in 1..size |->
                          IF i > frames_recorded /\ i <= frames_recorded + n
                          THEN v ELSE grown[i]]
                /\ frames_recorded' = frames_recorded + n
           ELSE \* line 187 raises: the slice is shorter than indata
                /\ recording_data' = grown
                /\ UNCHANGED frames_recorded

callback ==
    /\ stream_open
    /\ recording_mode \in DirectModes
    /\ callbacks < MaxCallbacks
    /\ callbacks' = callbacks + 1
    /\ \E n \in FrameSizes :
         IF ~ready_to_record
         THEN UNCHANGED <<direct, recording_data>>
         ELSE callback_Append(n, callbacks + 1)
    /\ armed_delivery' = (armed_delivery \/ ~ready_to_record)
    /\ UNCHANGED <<config, vad_last, exit_reason, flags, pc, cpc, sigs, stream_open, vadbuf, vadst, elapsed,
                   audio_data, sessions, stops, hist>>

\* lines 159-199: allocate the buffer and open the input stream
record_DirectOpen ==
    /\ pc = "run_84"
    /\ recording_mode \in DirectModes
    /\ UNCHANGED sample_rate
    /\ record_ms' \in MaxRecordingMsValues
    /\ buffer_size' = InitialBufferSize'
    /\ recording_data' = Zeros(InitialBufferSize')
    /\ frames_recorded' = 0
    /\ \E opened \in BOOLEAN :
         IF opened
         THEN /\ stream_open' = TRUE
              /\ pc' = "rec_200"
              /\ UNCHANGED <<audio_data, stream_failed, discard_reason>>
         ELSE \* lines 221-223
              /\ stream_open' = FALSE
              /\ pc' = "run_86"
              /\ audio_data' = None
              /\ stream_failed' = TRUE
              /\ discard_reason' = "error"
    /\ UNCHANGED <<recording_mode, min_duration_ms, silence_duration_ms,
                   obs, flags, cpc, sigs, vadbuf, vadst, elapsed, callbacks,
                   sessions, stops, transcribe_calls, path, stop_at, stoprec_at>>

\* line 200
DirectContinue == is_recording /\ is_running /\ frames_recorded < buffer_size

\* faulty variant: the loop is left with the stream still open
record_DirectLoopExit_NoClose ==
    /\ pc = "rec_200"
    /\ ~DirectContinue
    /\ pc' = "rec_204"
    /\ exit_reason' = IF is_recording /\ is_running THEN "full" ELSE "external"
    /\ UNCHANGED <<config, vad_last, armed_delivery, flags, cpc, sigs, stream_open, direct,
                   recording_data, vadbuf, vadst, elapsed, audio_data, callbacks, sessions,
                   stops, hist>>

\* lines 200-201: the loop is left, and with it the with-block (stream closed)
record_DirectLoopExit ==
    /\ pc = "rec_200"
    /\ ~DirectContinue
    /\ stream_open' = FALSE
    /\ pc' = "rec_204"
    /\ exit_reason' = IF is_recording /\ is_running THEN "full" ELSE "external"
    /\ UNCHANGED <<config, vad_last, armed_delivery, flags, cpc, sigs, direct, recording_data, vadbuf, vadst,
                   elapsed, audio_data, callbacks, sessions, stops, hist>>

\* lines 203-219
record_DirectFinalize ==
    /\ pc = "rec_204"
    /\ IF TooShort(frames_recorded)
       THEN audio_data' = None /\ discard_reason' = "short"
       ELSE audio_data' = Some(Take(recording_data, frames_recorded))
            /\ UNCHANGED discard_reason
    /\ pc' = "run_86"
    /\ UNCHANGED <<config, obs, flags, cpc, sigs, stream_open, direct, recording_data,
                   vadbuf, vadst, elapsed, callbacks, sessions, stops,
                   transcribe_calls, path, stop_at, stoprec_at, stream_failed>>

\* ---------------------------------------------- _record_audio, VAD loop
VadPcs == {"rec_268", "rec_270", "rec_271", "rec_274", "rec_278", "rec_279", "rec_282"}

\* faulty variant: the callback itself grows the recording
audio_callback_Records ==
    /\ stream_open
    /\ recording_mode \notin DirectModes
    /\ callbacks < MaxCallbacks
    /\ callbacks' = callbacks + 1
    /\ audio_buffer' = DequeExtend(audio_buffer, Fill(frame_size, callbacks + 1), frame_size)
    /\ recording_data' = recording_data \o Fill(frame_size, callbacks + 1)
    /\ data_ready' = TRUE
    /\ armed_delivery' = (armed_delivery \/ ~ready_to_record)
    /\ UNCHANGED <<config, vad_last, exit_reason, flags, pc, cpc, sigs,
                   stream_open, direct,
                   frame, vadst, elapsed, audio_data, sessions, stops, hist>>

\* lines 250-255: blocksize=frame_size samples of value v
audio_callback ==
    /\ stream_open
    /\ recording_mode \notin DirectModes
    /\ callbacks < MaxCallbacks
    /\ callbacks' = callbacks + 1
    /\ audio_buffer' = DequeExtend(audio_buffer, Fill(frame_size, callbacks + 1), frame_size)
    /\ data_ready' = TRUE
    /\ armed_delivery' = (armed_delivery \/ ~ready_to_record)
    /\ UNCHANGED <<config, vad_last, exit_reason, flags, pc, cpc, sigs,
                   stream_open, direct, recording_data,
                   frame, vadst, elapsed, audio_data, sessions, stops, hist>>

\* time.time() - recording_start_time grows while the VAD loop runs
Tick ==
    /\ pc \in VadPcs
    /\ \E t \in ElapsedValues : t > elapsed /\ elapsed' = t
    /\ UNCHANGED <<config, obs, flags, pc, cpc, sigs, stream_open, direct, recording_data,
                   vadbuf, vadst, audio_data, callbacks, sessions, stops, hist>>

\* lines 230-266: VAD state, handoff buffer, and the input stream
record_VadOpen ==
    /\ pc = "run_84"
    /\ recording_mode \notin DirectModes
    /\ speech_detected' = FALSE
    /\ recording_data' = <<>>
    /\ silent_frame_count' = 0
    /\ frames_processed' = 0
    /\ elapsed' = 0
    /\ data_ready' = FALSE
    /\ audio_buffer' = <<>>
    /\ UNCHANGED frame
    /\ \E opened \in BOOLEAN :
         IF opened
         THEN /\ stream_open' = TRUE
              /\ pc' = "rec_268"
              /\ UNCHANGED <<audio_data, stream_failed, discard_reason>>
         ELSE \* lines 339-343
              /\ stream_open' = FALSE
              /\ pc' = "run_86"
              /\ audio_data' = None
              /\ stream_failed' = TRUE
              /\ discard_reason' = "error"
    /\ UNCHANGED <<config, obs, flags, cpc, sigs, direct, callbacks, sessions, stops,
                   transcribe_calls, path, stop_at, stoprec_at>>

VadFrame == <<config, flags, cpc, sigs, direct, audio_data, callbacks, sessions,
              stops, hist>>

\* line 268
record_VadLoop ==
    /\ pc = "rec_268"
    /\ IF is_running /\ is_recording
       THEN pc' = "rec_270" /\ UNCHANGED <<stream_open, exit_reason>>
       ELSE pc' = "rec_317" /\ stream_open' = FALSE /\ exit_reason' = "external"
    /\ vad_last' = "none"
    /\ UNCHANGED <<VadFrame, armed_delivery, recording_data, vadbuf, vadst, elapsed>>

\* line 270: data_ready.wait()
record_VadWait ==
    /\ pc = "rec_270"
    /\ data_ready
    /\ pc' = "rec_271"
    /\ UNCHANGED <<VadFrame, obs, stream_open, recording_data, vadbuf, vadst, elapsed>>

\* line 271: data_ready.clear()
record_VadClearEvent ==
    /\ pc = "rec_271"
    /\ data_ready' = FALSE
    /\ pc' = "rec_274"
    /\ UNCHANGED <<VadFrame, obs, stream_open, recording_data, audio_buffer, frame, vadst,
                   elapsed>>

\* lines 274-275
record_VadCheckLen ==
    /\ pc = "rec_274"
    /\ pc' = IF Len(audio_buffer) < frame_size THEN "rec_268" ELSE "rec_278"
    /\ UNCHANGED <<VadFrame, obs, stream_open, recording_data, vadbuf, vadst, elapsed>>

\* line 278
record_VadCopyFrame ==
    /\ pc = "rec_278"
    /\ frame' = audio_buffer
    /\ pc' = "rec_279"
    /\ UNCHANGED <<VadFrame, obs, stream_open, recording_data, audio_buffer, data_ready,
                   vadst, elapsed>>

\* line 279
record_VadClearBuffer ==
    /\ pc = "rec_279"
    /\ audio_buffer' = <<>>
    /\ pc' = "rec_282"
    /\ UNCHANGED <<VadFrame, obs, stream_open, recording_data, data_ready, frame, vadst,
                   elapsed>>

\* faulty variant: silence before the first speech frame is counted
Classify_CountsLeadingSilence(outcome) ==
    /\ speech_detected' = (speech_detected \/ outcome = "speech")
    /\ silent_frame_count' =
         IF outcome = "speech" THEN 0
         ELSE IF outcome = "silence" THEN silent_frame_count + 1
         ELSE silent_frame_count

\* faulty variant: a classification that raises resets the silence count
Classify_RaiseResets(outcome) ==
    /\ speech_detected' = (speech_detected \/ outcome = "speech")
    /\ silent_frame_count' =
         IF outcome \in {"speech", "raise"} THEN 0
         ELSE IF outcome = "silence" /\ speech_detected THEN silent_frame_count + 1
         ELSE silent_frame_count

\* lines 286-308: the classification of one frame
Classify(outcome) ==
    /\ speech_detected' = (speech_detected \/ outcome = "speech")
    /\ silent_frame_count' =
         IF outcome = "speech" THEN 0
         ELSE IF outcome = "silence" /\ speech_detected THEN silent_frame_count + 1
         ELSE silent_frame_count

\* faulty variant: the 30 s timeout ends the capture whether or not speech was heard
record_VadProcess_TimeoutIgnoresSpeech ==
    /\ pc = "rec_282"
    /\ recording_data' = recording_data \o frame
    /\ frames_processed' = frames_processed + 1
    /\ \E outcome \in VadOutcomes :
         /\ Classify(outcome)
         /\ vad_last' = outcome
         /\ IF outcome # "raise" /\ speech_detected' /\ silent_frame_count' >= silence_frames
            THEN pc' = "rec_317" /\ stream_open' = FALSE /\ exit_reason' = "silence"
            ELSE IF elapsed > SafetyTimeout
            THEN pc' = "rec_317" /\ stream_open' = FALSE /\ exit_reason' = "timeout"
            ELSE pc' = "rec_268" /\ UNCHANGED <<stream_open, exit_reason>>
    /\ UNCHANGED <<VadFrame, armed_delivery, vadbuf, elapsed>>

\* lines 281-314; a break leaves the with-block, which closes the stream
record_VadProcess ==
    /\ pc = "rec_282"
    /\ recording_data' = recording_data \o frame
    /\ frames_processed' = frames_processed + 1
    /\ \E outcome \in VadOutcomes :
         /\ Classify(outcome)
         /\ vad_last' = outcome
         /\ IF outcome # "raise" /\ speech_detected' /\ silent_frame_count' >= silence_frames
            THEN pc' = "rec_317" /\ stream_open' = FALSE /\ exit_reason' = "silence"
            ELSE IF elapsed > SafetyTimeout /\ ~speech_detected'
            THEN pc' = "rec_317" /\ stream_open' = FALSE /\ exit_reason' = "timeout"
            ELSE pc' = "rec_268" /\ UNCHANGED <<stream_open, exit_reason>>
    /\ UNCHANGED <<VadFrame, armed_delivery, vadbuf, elapsed>>

\* lines 332-335
NoSpeechDiscard == recording_mode = "voice_activity_detection" /\ ~speech_detected

\* lines 316-337
record_VadFinalize ==
    /\ pc = "rec_317"
    /\ IF TooShort(Len(recording_data))
       THEN audio_data' = None /\ discard_reason' = "short"
       ELSE IF NoSpeechDiscard
       THEN audio_data' = None /\ discard_reason' = "no_speech"
       ELSE audio_data' = Some(recording_data) /\ UNCHANGED discard_reason
    /\ pc' = "run_86"
    /\ UNCHANGED <<config, obs, flags, cpc, sigs, stream_open, direct, recording_data,
                   vadbuf, vadst, elapsed, callbacks, sessions, stops,
                   transcribe_calls, path, stop_at, stoprec_at, stream_failed>>

\* ---------------------------------------------------------- specification
Next ==
    \/ Start
    \/ stop_recording
    \/ set_ready
    \/ stop_SetFlag
    \/ stop_Emit
    \/ stop_Wait
    \/ run_CheckRunning
    \/ run_SetRecording
    \/ run_EmitRecording
    \/ run_CheckAfterRecord
    \/ run_CheckNone
    \/ run_EmitTranscribing
    \/ run_Transcribe
    \/ run_CheckAfterTranscribe
    \/ run_EmitIdle
    \/ run_EmitResult
    \/ run_ExceptStatus
    \/ run_ExceptResult
    \/ run_Finally
    \/ callback
    \/ record_DirectOpen
    \/ record_DirectLoopExit
    \/ record_DirectFinalize
    \/ audio_callback
    \/ Tick
    \/ record_VadOpen
    \/ record_VadLoop
    \/ record_VadWait
    \/ record_VadClearEvent
    \/ record_VadCheckLen
    \/ record_VadCopyFrame
    \/ record_VadClearBuffer
    \/ record_VadProcess
    \/ record_VadFinalize

Spec == Init /\ [][Next]_vars

\* ------------------------------------------------------------ properties
Terminal == {"idle", "error"}
TerminalCount(s) == Cardinality({i \in 1..Len(s) : s[i] \in Terminal})
Last(s) == s[Len(s)]

\* run() has returned and no stop() is under way
SessionOver == pc = "finished" /\ cpc = "ready"
\* the execution of run() got past the is_running check of line 70
SessionRan == path # "shutdown_start"
\* _record_audio reached its duration/speech policy (lines 203-219, 316-337)
Finalized == ~audio_data.none \/ discard_reason \in {"short", "no_speech"}
FinalLen == IF recording_mode \in DirectModes THEN frames_recorded ELSE Len(recording_data)

\* C1: a session that ran has emitted exactly one terminal status ('idle' or
\* 'error') by the time it is over, the 'idle' of a stop() called during the
\* session included.
C1_ExactlyOneTerminal ==
    SessionOver /\ SessionRan => TerminalCount(statuses) = 1

\* C2: resultSignal is emitted at most once per session, and not at all when
\* run() returns on a discard path (no audio) or on a shutdown path.
C2_AtMostOneResult ==
    /\ Len(results) <= 1
    /\ path \in {"discard", "shutdown_start", "shutdown_recorded", "shutdown_transcribed"}
         => results = <<>>
    /\ audio_data.none => results = <<>>
C2_Witness ==
    /\ pc = "finished"
    /\ path = "shutdown_transcribed"
    /\ transcribe_calls = 1
    /\ results = <<>>

\* C3: 'recording' is emitted first (nothing precedes it), 'transcribing' never
\* comes before 'recording', and neither is emitted after a terminal status.
C3_SinglePassOrder ==
    /\ \A j \in 1..Len(statuses) : statuses[j] = "recording" => j = 1
    /\ \A i, j \in 1..Len(statuses) :
         i < j => /\ statuses[i] \in Terminal => statuses[j] \in Terminal
                  /\ statuses[i] = "transcribing" => statuses[j] # "recording"

\* C4 as stated: a stop_recording() or a stop() called while Capturing leaves
\* transcribe uninvoked and the session ends with 'idle'.
C4_CancellationDiscards ==
    stoprec_at = "capturing" \/ stop_at = "capturing"
        => /\ transcribe_calls = 0
           /\ SessionOver => Last(statuses) = "idle"

\* C4 amended: a stop() called while Capturing leaves transcribe uninvoked, no
\* result emitted, and the session ends with 'idle'; after a stop_recording()
\* called while Capturing (and no stop()), a buffer that passes the
\* duration/speech policy is handed to transcribe.
C4_ShutdownDiscards ==
    /\ stop_at = "capturing"
         => /\ transcribe_calls = 0
            /\ results = <<>>
            /\ SessionOver => Last(statuses) = "idle"
    /\ stoprec_at = "capturing" /\ stop_at = "none" /\ pc = "finished"
         => transcribe_calls = IF audio_data.none THEN 0 ELSE 1
C4_Witness ==
    /\ stop_at = "capturing"
    /\ SessionOver
    /\ ~audio_data.none
    /\ FinalLen * 1000 >= min_duration_ms * sample_rate
C4_WitnessStopRecording ==
    /\ stoprec_at = "capturing"
    /\ stop_at = "none"
    /\ pc = "finished"
    /\ transcribe_calls = 1

\* C5: stop() sets is_running to false and emits 'idle' whether or not a
\* session is active; a stop() called while Capturing returns only after the
\* session has ended, with no result emitted and the stream closed.
C5_Shutdown ==
    /\ stops > 0 => ~is_running
    /\ stop_idles = IF cpc = "stop_64" THEN stops - 1 ELSE stops
    /\ stop_at = "capturing" /\ cpc = "ready"
         => pc = "finished" /\ results = <<>> /\ ~stream_open
C5_Witness ==
    /\ stop_at = "capturing"
    /\ cpc = "ready"
    /\ callbacks > 0
C5_WitnessNoSession ==
    /\ sessions = 0
    /\ cpc = "ready"
    /\ stop_idles = 1

\* C6: a direct-mode capture never holds more than
\* maxDurationSeconds * sampleRate samples.
C6_DirectLengthBounded ==
    recording_mode \in DirectModes /\ SessionActive
        => frames_recorded * 1000 <= record_ms * sample_rate

\* C7: a capture that ran the VAD loop and finalized with speech_detected false
\* returns no buffer and transcribe is not invoked.
C7_NoSpeechDiscards ==
    recording_mode \notin DirectModes /\ Finalized /\ ~speech_detected
        => audio_data.none /\ transcribe_calls = 0

\* C8: a finalized buffer shorter than min_duration is discarded ('idle', no
\* transcribe, no result), and the too-short rule discards nothing else.
C8_TooShortDiscarded ==
    /\ Finalized /\ FinalLen * 1000 < min_duration_ms * sample_rate
         => /\ audio_data.none
            /\ transcribe_calls = 0
            /\ results = <<>>
            /\ SessionOver => \E i \in 1..Len(statuses) : statuses[i] = "idle"
    /\ discard_reason = "short" => FinalLen * 1000 < min_duration_ms * sample_rate
C8_Witness ==
    /\ SessionOver
    /\ discard_reason = "short"
    /\ FinalLen > 0
C8_WitnessEqual ==
    /\ Finalized
    /\ FinalLen * 1000 = min_duration_ms * sample_rate
    /\ ~audio_data.none

\* C9: a session whose input stream failed to open ends with the 'error'
\* status and an empty result, and run() emits no 'idle'.
C9_StreamErrorReported ==
    stream_failed /\ pc = "finished" /\ path # "shutdown_recorded"
        => /\ \E i \in 1..Len(statuses) : statuses[i] = "error"
           /\ results = <<"">>
           /\ path # "discard"

\* C10: when transcribe raises, run() goes through its handler: 'error' and an
\* empty result are emitted, and run() returns.
C10_TranscriptionErrorCaught ==
    path = "except"
        => /\ pc \in {"run_112", "run_113", "run_115", "finished"}
           /\ pc \in {"run_113", "run_115", "finished"}
                => \E i \in 1..Len(statuses) : statuses[i] = "error"
           /\ pc \in {"run_115", "finished"} => results = <<"">>
C10_Witness ==
    /\ path = "except"
    /\ pc = "finished"
    /\ transcribe_calls = 1

\* a step of record_VadProcess, and a step of either audio callback
VadStep == frames_processed' = frames_processed + 1
CallbackStep == callbacks' = callbacks + 1
VadMode == recording_mode \notin DirectModes

\* C11: in the VAD loop a silent frame before the first speech frame never
\* counts, a speech frame resets the count to 0, a silent frame after speech
\* adds one, and the loop is left for silence at exactly the frame at which
\* the count reaches silence_frames: never earlier, never later; the
\* recording is then returned when it is long enough.
C11_SilenceStop ==
    /\ [](pc \in VadPcs /\ speech_detected => silent_frame_count < silence_frames)
    /\ [](exit_reason = "timeout" => ~speech_detected)
    /\ [](exit_reason = "silence" /\ Finalized
            /\ FinalLen * 1000 >= min_duration_ms * sample_rate => ~audio_data.none)
    /\ [][VadStep =>
            /\ vad_last' = "silence" /\ ~speech_detected
                 => silent_frame_count' = 0 /\ exit_reason' # "silence"
            /\ vad_last' = "speech" => silent_frame_count' = 0 /\ speech_detected'
            /\ vad_last' = "silence" /\ speech_detected
                 => silent_frame_count' = silent_frame_count + 1
            /\ exit_reason' = "silence"
                 <=> /\ vad_last' # "raise"
                     /\ speech_detected'
                     /\ silent_frame_count' >= silence_frames
            /\ exit_reason' = "silence" => pc' = "rec_317" /\ ~stream_open']_vars
C11_Witness ==
    /\ VadMode
    /\ exit_reason = "silence"
    /\ stop_at = "none" /\ stoprec_at = "none"
    /\ silence_frames = 2
    /\ silent_frame_count = 2
    /\ frames_processed = 3
    /\ ~audio_data.none

\* C12: once more than 30 s have elapsed with no speech detected, the VAD
\* worker is not held up waiting for a frame, and a capture ended by the
\* timeout is discarded by the no-speech rule, without transcription.
C12_SafetyTimeout ==
    /\ VadMode /\ pc = "rec_270" /\ elapsed > SafetyTimeout /\ ~speech_detected
         => data_ready
    /\ exit_reason = "timeout" /\ pc # "rec_317"
         => /\ audio_data.none
            /\ discard_reason = "no_speech"
            /\ transcribe_calls = 0

\* C13: after a stop_recording() or stop() called while Capturing, the worker
\* inside the capture loop can take its next step without a further callback.
C13_StopObserved ==
    /\ stop_at = "capturing" \/ stoprec_at = "capturing"
    /\ ~is_recording \/ ~is_running
    /\ stream_open
    => /\ pc = "rec_270" => data_ready
       /\ pc = "rec_200" => ~DirectContinue

\* C14: in direct mode frames_recorded <= buffer_size always, every callback
\* delivered while ready_to_record appends its frame within the buffer, and
\* buffer_size changes during a capture only by doubling.
C14_CapacityInvariant ==
    /\ [](~VadMode => frames_recorded <= buffer_size)
    /\ [][~VadMode /\ CallbackStep /\ ready_to_record
            => /\ frames_recorded' > frames_recorded
               /\ frames_recorded' <= buffer_size']_vars
    /\ [][~VadMode /\ stream_open /\ stream_open'
            => buffer_size' \in {buffer_size, 2 * buffer_size}]_vars

\* the variables of the program (the observer's records left out)
progvars == <<config, flags, pc, cpc, statuses, results, stream_open, direct,
              recording_data, vadbuf, vadst, audio_data>>

\* C15: stop_recording() only clears is_recording and ready_to_record; called
\* again with both already cleared it changes nothing; and whatever the number
\* of calls, a session without stop() ends with exactly one terminal status,
\* at most one transcription and at most one result.
C15_StopRecordingIdempotent ==
    /\ [][stop_recording
            => /\ ~is_recording' /\ ~ready_to_record'
               /\ UNCHANGED <<config, is_running, pc, cpc, statuses, results,
                              stream_open, direct, recording_data, vadbuf, vadst,
                              audio_data>>]_vars
    /\ [][stop_recording /\ ~is_recording /\ ~ready_to_record
            => UNCHANGED progvars]_vars
    /\ [](transcribe_calls <= 1 /\ Len(results) <= 1)
    /\ [](stops = 0 /\ pc = "finished" => TerminalCount(statuses) = 1)
C15_Witness ==
    /\ stoprec_at = "capturing"
    /\ stops = 0
    /\ stream_open
    /\ ~is_recording /\ ~ready_to_record
    /\ ENABLED stop_recording

\* no set_ready() since line 75: ready_to_record is cleared only by
\* stop_recording() and by the finally clause
NeverReady ==
    /\ pc \in {"rec_200", "rec_204", "rec_317"} \cup VadPcs
    /\ ~ready_to_record
    /\ stoprec_at = "none"

\* C16: while set_ready() has not been called, nothing is written to the
\* recording, in direct and in VAD mode.
C16_ArmedFramesDropped ==
    NeverReady => IF VadMode THEN recording_data = <<>> ELSE frames_recorded = 0

\* the samples of s are those of callbacks 1, 2, 3, ... in this order
Gapless(s) ==
    \A i \in 1..Len(s) : IF i = 1 THEN s[i] = 1 ELSE s[i] \in {s[i-1], s[i-1] + 1}

\* C17 (the handoff of the VAD loop): when every callback came while
\* ready_to_record, the recording is made of the frames of callbacks 1, 2, ...
\* in order, each whole, none missing.
C17_HandoffLossless ==
    VadMode /\ ~armed_delivery
        => /\ Gapless(recording_data)
           /\ \A i \in 1..Len(recording_data) :
                recording_data[i] = ((i - 1) \div frame_size) + 1

\* C18: when the classification of a frame raises, the frame is in the
\* recording, speech_detected and silent_frame_count keep their values, and the
\* loop goes on (unless the 30 s timeout ends it); a session ends in 'error'
\* only through transcribe.
C18_ClassifierErrorRecovered ==
    /\ [][VadStep /\ vad_last' = "raise"
            => /\ recording_data' = recording_data \o frame
               /\ speech_detected' = speech_detected
               /\ silent_frame_count' = silent_frame_count
               /\ \/ pc' = "rec_268" /\ stream_open'
                  \/ elapsed > SafetyTimeout /\ ~speech_detected
                       /\ exit_reason' = "timeout"]_vars
    /\ [](path = "except" => transcribe_calls = 1)
C18_Witness ==
    /\ vad_last = "raise"
    /\ pc = "rec_268"
    /\ stream_open
    /\ speech_detected
    /\ silent_frame_count = 1
    /\ frames_processed = 3
    /\ Len(recording_data) = 3 * frame_size

\* C19: the stream is open only inside the capture loop: it is closed when the
\* duration/speech policy is evaluated, when transcribe is invoked and when
\* run() has returned, and a stream is opened only when none is open.
C19_StreamReleased ==
    /\ stream_open => pc \in {"rec_200"} \cup VadPcs
    /\ exit_reason # "none" \/ stream_failed => ~stream_open
C19_Witness ==
    /\ pc = "run_98"
    /\ exit_reason = "silence"
    /\ ~stream_open

MaxSilenceMs == 900     \* silence_duration values tried, 1..MaxSilenceMs

\* as Init, in a VAD mode, with every silence_duration up to the default of
\* line 232
InitVadParams ==
    /\ recording_mode \in RecordingModes \ DirectModes
    /\ sample_rate \in SampleRateValues
    /\ record_ms = 0
    /\ min_duration_ms \in MinDurationValues
    /\ silence_duration_ms \in 1..MaxSilenceMs
    /\ is_recording = FALSE
    /\ ready_to_record = FALSE
    /\ is_running = TRUE
    /\ pc = "not_started"
    /\ cpc = "ready"
    /\ statuses = <<>>
    /\ results = <<>>
    /\ stop_idles = 0
    /\ stop_in_session = FALSE
    /\ stream_open = FALSE
    /\ frames_recorded = 0
    /\ buffer_size = 0
    /\ recording_data = <<>>
    /\ audio_buffer = <<>>
    /\ data_ready = FALSE
    /\ frame = <<>>
    /\ speech_detected = FALSE
    /\ silent_frame_count = 0
    /\ frames_processed = 0
    /\ elapsed = 0
    /\ audio_data = None
    /\ callbacks = 0
    /\ sessions = 0
    /\ stops = 0
    /\ transcribe_calls = 0
    /\ path = "none"
    /\ stop_at = "none"
    /\ stoprec_at = "none"
    /\ stream_failed = FALSE
    /\ discard_reason = "none"
    /\ vad_last = "none"
    /\ armed_delivery = FALSE
    /\ exit_reason = "none"

\* run() up to the point where _record_audio has computed silence_frames
\* (line 233) and opened the stream
NextVadParams ==
    \/ Start
    \/ run_CheckRunning
    \/ run_SetRecording
    \/ run_EmitRecording
    \/ record_VadOpen

SpecVadParams == InitVadParams /\ [][NextVadParams]_vars

\* C21: the threshold the VAD loop uses is silence_duration_ms /
\* frame_duration_ms rounded to the nearest integer (whichever way a tie is
\* rounded): it is no further than half a frame from the quotient.
C21_SilenceThresholdRounded ==
    pc = "rec_268"
        => /\ 2 * (silence_duration_ms - silence_frames * frame_duration_ms)
                <= frame_duration_ms
           /\ 2 * (silence_frames * frame_duration_ms - silence_duration_ms)
                <= frame_duration_ms

\* C22: when the VAD loop has been left with speech_detected true (no
\* exception), the silence count had reached silence_frames or one of
\* is_recording, is_running was false; the 30 s timeout and the buffer
\* capacity of max_recording_seconds never end a VAD capture with speech.
C22_VadExitReasons ==
    /\ VadMode /\ exit_reason # "none" /\ speech_detected
         => \/ silent_frame_count >= silence_frames
            \/ ~is_recording
            \/ ~is_running
    /\ VadMode /\ speech_detected => exit_reason \notin {"timeout", "full"}
    /\ VadMode /\ exit_reason = "silence" => silent_frame_count >= silence_frames
C22_Witness ==
    /\ VadMode
    /\ pc = "rec_317"
    /\ exit_reason = "external"
    /\ speech_detected
    /\ silent_frame_count < silence_frames
    /\ elapsed > SafetyTimeout
    /\ is_running /\ ~is_recording

\* C23: every step by which run() returns leaves is_recording and
\* ready_to_record false; is_recording is false whenever no session is under
\* way; and ready_to_record becomes true after the return only through a
\* set_ready() called then.
C23_FlagsClearedOnReturn ==
    /\ [][pc # "finished" /\ pc' = "finished"
            => ~is_recording' /\ ~ready_to_record']_vars
    /\ [](~SessionActive => ~is_recording)
    /\ [][pc = "finished" /\ pc' = "finished" /\ ~ready_to_record /\ ready_to_record'
            => set_ready]_vars
C23_Witness ==
    /\ pc = "finished"
    /\ path = "completed"
    /\ exit_reason \in {"silence", "full"}
    /\ stoprec_at = "none"
    /\ ~is_recording /\ ~ready_to_record

\* C24: is_running, once false, stays false; a run() that finds it false at
\* line 70 goes straight to the finally clause and returns, and on that path
\* the worker emits no status and no result, opens no stream and never calls
\* transcribe.
C24_ShutdownPermanent ==
    /\ [][~is_running => ~is_running']_vars
    /\ [][pc = "run_70" /\ ~is_running /\ pc' # pc
            => /\ pc' = "run_115"
               /\ path' = "shutdown_start"]_vars
    /\ [][pc' # pc /\ path' = "shutdown_start"
            => /\ pc' \in {"run_115", "finished"}
               /\ UNCHANGED <<statuses, results, stream_open, transcribe_calls>>]_vars
    /\ [](path = "shutdown_start"
            => /\ results = <<>>
               /\ transcribe_calls = 0
               /\ ~stream_open
               /\ callbacks = 0
               /\ \A i \in 1..Len(statuses) : statuses[i] = "idle")
C24_Witness ==
    /\ sessions = 1
    /\ stops = 1
    /\ stop_at = "none"
    /\ path = "shutdown_start"
    /\ pc = "finished"
    /\ cpc = "ready"
    /\ statuses = <<>>
    /\ ~is_running

====
